---- MODULE Spec2Model ----
(***************************************************************************)
(* Job lifecycle of the multitalk-ui backend: the video_jobs / image_jobs  *)
(* tables, the job services that write them and the complete handlers     *)
(* that materialise renderer outputs (Supabase Storage upload, thumbnail, *)
(* Google Drive copy) before the final row update.                        *)
(*                                                                         *)
(* One behaviour follows one job table (kind) and one job row.  Every     *)
(* call a complete handler suspends on is a separate step, so that two    *)
(* requests for the same job interleave the way two FastAPI requests do;  *)
(* the Google Drive block suspends only when project_id is set and is     *)
(* otherwise part of the step before it.  create_job, update_job and      *)
(* update_to_processing make one database call each and are single steps. *)
(* A table write of update_job or update_to_processing that arrives while  *)
(* a handler is in its upload loop or thumbnail block, which touch no      *)
(* table, is taken at the handler's next database call.                    *)
(***************************************************************************)
EXTENDS Integers, Sequences, FiniteSets, TLC

\* Largest number of output references a complete payload carries.
MaxRefs == 2
\* Largest number of update_job / update_to_processing calls in a behaviour.
MaxEdits == 1
\* Last second of the feed cache's timer that a behaviour reaches.
MaxTime == 11
\* Largest number of Supabase calls of the complete handlers that raise.
MaxFaults == 1
\* Number of jobs in video_jobs and multitalk_jobs together.
MaxFeedRows == 4

\* The complete requests of a behaviour: a delivery and its duplicate.
Callers == {1, 2}
Kinds == {"video", "image"}
JobStatus == {"pending", "processing", "completed", "failed"}
CompleteStatus == {"completed", "failed"}
None == "None"
\* The row's primary key and the renderer-assigned id of the job followed.
JobUuid == "uuid-1"
ComfyJobId == "comfy-1"
Keys == {JobUuid, ComfyJobId}
ErrorMessages == {"boom"}

\* An ephemeral renderer URL (the i-th output reference of a payload).
ComfyUrl(i) == <<"comfy", 0, i>>
\* The public URL of the object that request p stored for its i-th reference;
\* the storage path carries a fresh uuid4, so no two uploads share a URL.
SupabaseUrl(p, i) == <<"supabase", p, i>>
\* The thumbnail path is derived from the job id of the request only.
ThumbUrl(job_id) == "thumb:" \o job_id
\* No URL: the value of a URL local that is not bound.
NoUrl == <<>>
OutputRefs(n) == [i \in 1..n |-> ComfyUrl(i)]

VARIABLES
    kind,             \* which table / handler pair this behaviour follows
    event,            \* the completion event the client delivers
    rows,             \* the table: a set of rows
    createResult,     \* outcome of the last create_job call
    edits,            \* number of update_job / update_to_processing calls
    pc,               \* per request: position in the complete handler
    payload,          \* per request: the Complete*JobPayload
    existing_status,  \* per request: status of existing_job ("none" if None)
    project_id,       \* per request: the handler's project_id local
    supabase_urls,    \* per request: the handler's supabase_urls list
    ranPipeline,      \* per request: the upload branch was entered
    driveOutcome,     \* per request: outcome of the Google Drive block
    thumb_source,     \* per request: the URL given to the thumbnail service
    response          \* per request: the HTTP response code

\* The feed cache (core/cache.py) in front of get_feed_jobs.
VARIABLES
    now,              \* the cache's timer, in seconds
    feed_cache,       \* _feed_cache: its links, the oldest first
    feedResult        \* what the last get_feed_jobs call returned

feedVars == <<now, feed_cache, feedResult>>

\* The template engine (services/workflow_service.py) and the
\* submit-workflow endpoint (api/comfyui.py).
VARIABLES
    workflow_name,        \* the template name of the request
    parameters,           \* the request's parameters, in dict order
    template_parameters,  \* result of get_template_parameters
    built,                \* result of build_workflow
    sw_pc,                \* submit_workflow: position in the handler
    sw_workflow,          \* submit_workflow: the workflow local
    prompt_calls,         \* number of submit_prompt invocations
    sw_response,          \* submit_workflow: the WorkflowSubmitResponse
    client_pc,            \* the client's create operation
    document,             \* the argument of a validate_workflow call
    validation            \* result of that validate_workflow call

workflowVars == <<workflow_name, parameters, template_parameters, built,
                  sw_pc, sw_workflow, prompt_calls, sw_response, client_pc,
                  document, validation>>

\* What the caller of create_job asked for beyond the row's columns.
VARIABLES
    destination           \* project_id of the Create*JobPayload, or None
\* Calls of the pure feed functions: their arguments and their results.
VARIABLES
    key_queries,          \* two make_feed_cache_key argument lists
    key_pair,             \* the keys made for them
    feed_store,           \* video_jobs and multitalk_jobs, per created_at
    feed_request,         \* the arguments of get_recent_jobs_feed
    feed_page             \* its result
queryVars == <<key_queries, key_pair, feed_store, feed_request, feed_page>>
inputVars == <<destination, queryVars>>
\* The Supabase client under the job services.
VARIABLES
    store_faults          \* calls of the complete handlers that still raise
\* The state outside the job table and the complete handlers.
auxVars == <<feedVars, workflowVars, inputVars>>

vars == <<kind, event, rows, createResult, edits, store_faults, pc, payload,
          existing_status, project_id, supabase_urls, ranPipeline,
          driveOutcome, thumb_source, response, auxVars>>

\* The job table and what the callers of the job services hold.
jobVars == <<kind, event, rows, createResult, edits, store_faults>>

reqVars == <<pc, payload, existing_status, project_id, supabase_urls,
             ranPipeline, driveOutcome, thumb_source, response>>

\* The row that create_job inserts: status "pending", the database defaults
\* (null) for every column the insert leaves out.
PendingRow ==
    [id |-> JobUuid, comfy_job_id |-> ComfyJobId, status |-> "pending",
     outputs |-> <<>>, error_message |-> None, thumbnail_url |-> None]

NoPayload ==
    [job_id |-> None, status |-> None, output_urls |-> <<>>,
     error_message |-> None, thumbnail_url |-> None]

\* The arguments of a completion: the job id of the path, the job id of the
\* body, the reported status, the number of renderer output references and
\* the error message.  A client that polls the renderer delivers the same
\* completion again on every poll, so both requests of a behaviour carry it.
CompleteEvents ==
    [job_id : Keys, body_id : Keys, status : CompleteStatus,
     refs : 0..MaxRefs, error_message : ErrorMessages \cup {None}]

\* No complete request has arrived.
RequestsIdle ==
    /\ pc = [p \in Callers |-> "idle"]
    /\ payload = [p \in Callers |-> NoPayload]
    /\ existing_status = [p \in Callers |-> "none"]
    /\ project_id = [p \in Callers |-> None]
    /\ supabase_urls = [p \in Callers |-> <<>>]
    /\ ranPipeline = [p \in Callers |-> FALSE]
    /\ driveOutcome = [p \in Callers |-> "none"]
    /\ thumb_source = [p \in Callers |-> NoUrl]
    /\ response = [p \in Callers |-> "none"]

CACHE_TTL_SECONDS == 10
CACHE_MAX_SIZE == 100

\* A str of a cache key is a sequence of characters; a word that holds no
\* ':' counts as one character.  NoneText stands for Python's None.
NoneText == <<"<None>">>

\* The str of a one-word value, None for None.
Text(v) == IF v = None THEN NoneText ELSE <<v>>

\* `value or 'all'`: None and the empty str are falsy.
OrAll(text) == IF text \in {NoneText, <<>>} THEN <<"all">> ELSE text

\* make_feed_cache_key: the six parts joined by ':'.
make_feed_cache_key(table, user_id, workflow, status, limit, offset) ==
    <<"feed", ":">> \o table
        \o <<":", "u", ":">> \o OrAll(user_id)
        \o <<":", "w", ":">> \o OrAll(workflow)
        \o <<":", "s", ":">> \o OrAll(status)
        \o <<":", "l", ":", ToString(limit)>>
        \o <<":", "o", ":", ToString(offset)>>

\* The status filters of the feed queries followed (the owner and workflow
\* filters and the limit of get_feed_jobs keep their defaults).
FeedFilters == {None, "completed"}

\* The cache_key of get_feed_jobs(limit=50, offset, status=status).
FeedKey(status, offset) ==
    make_feed_cache_key(<<"video_jobs">>, NoneText, NoneText, Text(status),
                        50, offset)

FeedKeys == {FeedKey(status, 0) : status \in FeedFilters}

\* The links of key in the TTLCache (at most one).
CacheIndex(key) == {i \in 1..Len(feed_cache) : feed_cache[i].key = key}

Cached(key) == CacheIndex(key) # {}

NoEntry == [key |-> <<>>, data |-> <<{}, 0>>, expires |-> 0]

\* The link of key: its value and its expiry time.
CacheEntry(key) ==
    IF Cached(key) THEN feed_cache[CHOOSE i \in CacheIndex(key) : TRUE]
    ELSE NoEntry

NoResult ==
    [key |-> <<>>, data |-> <<{}, 0>>, hit |-> FALSE, error |-> FALSE,
     replaced |-> FALSE]

\* The module-level TTLCache is empty and no feed has been read.
FeedIdle ==
    /\ now = 0
    /\ feed_cache = <<>>
    /\ feedResult = NoResult

\* The argument list of a make_feed_cache_key call.
KeyQuery(table, user_id, workflow, status, limit, offset) ==
    [table |-> table, user_id |-> user_id, workflow |-> workflow,
     status |-> status, limit |-> limit, offset |-> offset]

DefaultQuery ==
    KeyQuery(<<"video_jobs">>, NoneText, NoneText, NoneText, 50, 0)

NoKeys == << <<>>, <<>> >>
NoPage == [called |-> FALSE, items |-> <<>>]

\* No key has been made and get_recent_jobs_feed has not been called.
QueriesIdle ==
    /\ key_queries = <<DefaultQuery, DefaultQuery>>
    /\ key_pair = NoKeys
    /\ feed_store = <<>>
    /\ feed_request = [limit |-> 50, offset |-> 0, user_id |-> None]
    /\ feed_page = NoPage

(***************************************************************************)
(* Text: a str is a sequence of characters (one-character strings; a      *)
(* word that no pattern can split, such as a name, counts as one).        *)
(***************************************************************************)

Q == "\""
BS == "\\"
NL == "\n"
CR == "\r"
TAB == "\t"

MatchAt(s, i, pat) ==
    /\ i + Len(pat) - 1 <= Len(s)
    /\ SubSeq(s, i, i + Len(pat) - 1) = pat

\* str.replace(old, new): every non-overlapping occurrence, left to right.
RECURSIVE ReplaceFrom(_, _, _, _)
ReplaceFrom(s, i, old, new) ==
    IF i > Len(s) THEN <<>>
    ELSE IF MatchAt(s, i, old)
    THEN new \o ReplaceFrom(s, i + Len(old), old, new)
    ELSE <<s[i]>> \o ReplaceFrom(s, i + 1, old, new)

Replace(s, old, new) == ReplaceFrom(s, 1, old, new)

\* The escaping chain of build_workflow for str values: backslash, quote,
\* newline, carriage return, tab, in this order.
EscapeValue(value) ==
    Replace(Replace(Replace(Replace(Replace(value,
        <<BS>>, <<BS, BS>>), <<Q>>, <<BS, Q>>), <<NL>>, <<BS, "n">>),
        <<CR>>, <<BS, "r">>), <<TAB>>, <<BS, "t">>)

\* re.findall(r'\{\{[^}]+\}\}', s) from position i: the matches as
\* [from, to] index pairs.
RECURSIVE FindPlaceholders(_, _)
FindPlaceholders(s, i) ==
    IF i + 4 > Len(s) THEN <<>>
    ELSE IF s[i] = "{" /\ s[i + 1] = "{" /\ s[i + 2] # "}"
    THEN LET close == {j \in (i + 3)..Len(s) : s[j] = "}"}
             j == CHOOSE x \in close : \A y \in close : x <= y
         IN  IF close # {} /\ j < Len(s) /\ s[j + 1] = "}"
                THEN <<[from |-> i, to |-> j + 1]>>
                         \o FindPlaceholders(s, j + 2)
                ELSE FindPlaceholders(s, i + 1)
    ELSE FindPlaceholders(s, i + 1)

(***************************************************************************)
(* Values: [type, val].  A str holds its characters, an int or bool the   *)
(* text of str(value), a dict its items as <<key, value>> pairs in order. *)
(***************************************************************************)

PyStr(chars) == [type |-> "str", val |-> chars]
PyInt(text) == [type |-> "int", val |-> <<text>>]
PyBool(text) == [type |-> "bool", val |-> <<text>>]
PyDict(items) == [type |-> "dict", val |-> items]
PyOther(type) == [type |-> type, val |-> <<>>]

NumberTokens == {"640", "5"}

\* json.dumps with the default separators.
RECURSIVE DumpValue(_)
RECURSIVE DumpItems(_, _)
DumpItems(items, i) ==
    IF i > Len(items) THEN <<>>
    ELSE (IF i > 1 THEN <<",", " ">> ELSE <<>>)
         \o <<Q>> \o EscapeValue(items[i][1]) \o <<Q, ":", " ">>
         \o DumpValue(items[i][2])
         \o DumpItems(items, i + 1)

DumpValue(v) ==
    IF v.type = "str" THEN <<Q>> \o EscapeValue(v.val) \o <<Q>>
    ELSE IF v.type = "int" THEN v.val
    ELSE IF v.type = "bool"
    THEN (IF v.val = <<"True">> THEN <<"true">> ELSE <<"false">>)
    ELSE IF v.type = "dict" THEN <<"{">> \o DumpItems(v.val, 1) \o <<"}">>
    ELSE <<"null">>

json_dumps(v) == DumpValue(v)

\* json.loads: a parse result is [ok, val, next]; next is the position
\* after the parsed value.
ParseError == [ok |-> FALSE, val |-> PyOther("error"), next |-> 0]

RECURSIVE SkipWs(_, _)
SkipWs(s, i) == IF i <= Len(s) /\ s[i] = " " THEN SkipWs(s, i + 1) ELSE i

Unescaped(c) ==
    IF c = "n" THEN NL ELSE IF c = "r" THEN CR ELSE IF c = "t" THEN TAB
    ELSE c

\* The characters of a string literal, from the position after its
\* opening quote: escapes are decoded, raw control characters rejected.
RECURSIVE ParseString(_, _, _)
ParseString(s, i, acc) ==
    IF i > Len(s) THEN ParseError
    ELSE IF s[i] = Q THEN [ok |-> TRUE, val |-> PyStr(acc), next |-> i + 1]
    ELSE IF s[i] = BS
    THEN IF i + 1 <= Len(s) /\ s[i + 1] \in {Q, BS, "/", "n", "r", "t"}
            THEN ParseString(s, i + 2, Append(acc, Unescaped(s[i + 1])))
            ELSE ParseError
    ELSE IF s[i] \in {NL, CR, TAB} THEN ParseError
    ELSE ParseString(s, i + 1, Append(acc, s[i]))

RECURSIVE ParseValue(_, _)
RECURSIVE ParseItems(_, _, _)
\* The items of an object, from the position of the next key.
ParseItems(s, i, acc) ==
    IF i > Len(s) \/ s[i] # Q THEN ParseError
    ELSE LET k == ParseString(s, i + 1, <<>>)
             colon == IF k.ok THEN SkipWs(s, k.next) ELSE 0
         IN  IF ~k.ok \/ colon > Len(s) \/ s[colon] # ":" THEN ParseError
             ELSE LET v == ParseValue(s, SkipWs(s, colon + 1))
                      after == IF v.ok THEN SkipWs(s, v.next) ELSE 0
                      items == Append(acc, <<k.val.val, v.val>>)
                  IN  IF ~v.ok \/ after > Len(s) THEN ParseError
                      ELSE IF s[after] = "}"
                      THEN [ok |-> TRUE, val |-> PyDict(items),
                            next |-> after + 1]
                      ELSE IF s[after] = ","
                      THEN ParseItems(s, SkipWs(s, after + 1), items)
                      ELSE ParseError

ParseValue(s, i) ==
    IF i > Len(s) THEN ParseError
    ELSE IF s[i] = Q THEN ParseString(s, i + 1, <<>>)
    ELSE IF s[i] = "{"
    THEN LET j == SkipWs(s, i + 1)
         IN  IF j <= Len(s) /\ s[j] = "}"
                THEN [ok |-> TRUE, val |-> PyDict(<<>>), next |-> j + 1]
                ELSE ParseItems(s, j, <<>>)
    ELSE IF s[i] \in NumberTokens
    THEN [ok |-> TRUE, val |-> PyInt(s[i]), next |-> i + 1]
    ELSE IF s[i] \in {"true", "false"}
    THEN [ok |-> TRUE,
          val |-> PyBool(IF s[i] = "true" THEN "True" ELSE "False"),
          next |-> i + 1]
    ELSE IF s[i] = "null"
    THEN [ok |-> TRUE, val |-> PyOther("NoneType"), next |-> i + 1]
    ELSE ParseError

json_loads(s) ==
    LET r == ParseValue(s, SkipWs(s, 1))
    IN  IF r.ok /\ SkipWs(s, r.next) > Len(s) THEN r ELSE ParseError

(***************************************************************************)
(* WorkflowService                                                         *)
(***************************************************************************)

Placeholder(key) == <<"{", "{", key, "}", "}">>

WorkflowNode(fields) == PyDict(fields)
ClassType == <<(<<"class_type">>), PyStr(<<"X">>)>>
Inputs(items) == <<(<<"inputs">>), PyDict(items)>>

\* The template files of the workflows directory: whole-string
\* placeholders, a placeholder inside a longer string, and a node without
\* class_type.
Templates ==
    [VideoLipsync |->
        PyDict(<< <<(<<"1">>), WorkflowNode(<<ClassType, Inputs(<<
            <<(<<"text">>), PyStr(Placeholder("PROMPT"))>>,
            <<(<<"width">>), PyStr(Placeholder("WIDTH"))>> >>)>>)>> >>),
     Embedded |->
        PyDict(<< <<(<<"1">>), WorkflowNode(<<ClassType, Inputs(<<
            <<(<<"text">>), PyStr(<<"x">> \o Placeholder("PROMPT"))>>
            >>)>>)>> >>),
     NoClass |->
        PyDict(<< <<(<<"1">>), WorkflowNode(<<Inputs(<<
            <<(<<"text">>), PyStr(Placeholder("PROMPT"))>> >>)>>)>> >>)]

WorkflowNames == DOMAIN Templates \cup {"NonExistent"}

\* load_template: (success, template, error).
load_template(template_name) ==
    IF template_name \in DOMAIN Templates
       THEN [success |-> TRUE, template |-> Templates[template_name],
             error |-> None]
       ELSE [success |-> FALSE, template |-> PyOther("NoneType"),
             error |-> "not_found"]

\* get_template_parameters: the names between the braces of every match,
\* de-duplicated by set().
get_template_parameters(template_name) ==
    LET loaded == load_template(template_name)
        template_str == json_dumps(loaded.template)
        found == FindPlaceholders(template_str, 1)
    IN  IF ~loaded.success
           THEN [success |-> FALSE, parameters |-> {},
                 error |-> loaded.error]
           ELSE [success |-> TRUE,
                 parameters |->
                     {SubSeq(template_str, found[n].from + 2,
                             found[n].to - 2) : n \in 1..Len(found)},
                 error |-> None]

\* The replacement text of one parameter, by the type of its value: bool
\* before str before int, anything else through str().
ValueText(value) ==
    IF value.type = "bool"
       THEN (IF value.val = <<"True">> THEN <<"true">> ELSE <<"false">>)
    ELSE IF value.type = "str"
       THEN <<Q>> \o EscapeValue(value.val) \o <<Q>>
    ELSE IF value.type = "int" THEN value.val
    ELSE <<Q, "None", Q>>

\* The loop over parameters.items(): each quoted placeholder is replaced in
\* the text the earlier replacements produced.
RECURSIVE SubstituteAll(_, _, _)
SubstituteAll(template_str, params, i) ==
    IF i > Len(params) THEN template_str
    ELSE SubstituteAll(
             Replace(template_str,
                     <<Q>> \o Placeholder(params[i][1]) \o <<Q>>,
                     ValueText(params[i][2])),
             params, i + 1)

\* The four replacements of Python boolean literals.
FixBooleans(s) ==
    Replace(Replace(Replace(Replace(s,
        <<":", " ", "True", ",">>, <<":", " ", "true", ",">>),
        <<":", " ", "False", ",">>, <<":", " ", "false", ",">>),
        <<":", " ", "True", "}">>, <<":", " ", "true", "}">>),
        <<":", " ", "False", "}">>, <<":", " ", "false", "}">>)

\* build_workflow: (success, workflow, error); remaining holds the tokens
\* the unsubstituted-placeholders error names.
build_workflow(template_name, params) ==
    LET loaded == load_template(template_name)
        template_str ==
            FixBooleans(SubstituteAll(json_dumps(loaded.template), params, 1))
        found == FindPlaceholders(template_str, 1)
        remaining == [n \in 1..Len(found) |->
                         SubSeq(template_str, found[n].from, found[n].to)]
        parsed == json_loads(template_str)
        failed(error, tokens) ==
            [success |-> FALSE, workflow |-> PyOther("NoneType"),
             error |-> error, remaining |-> tokens]
    IN  IF ~loaded.success THEN failed(loaded.error, <<>>)
        ELSE IF remaining # <<>> THEN failed("unsubstituted", remaining)
        ELSE IF ~parsed.ok THEN failed("invalid_json", <<>>)
        ELSE [success |-> TRUE, workflow |-> parsed.val, error |-> None,
              remaining |-> <<>>]

HasKey(dict, key) == \E n \in 1..Len(dict.val) : dict.val[n][1] = key

\* validate_workflow: (is_valid, error).  The first failing check of the
\* first failing node decides.
validate_workflow(workflow) ==
    LET bad(node) ==
            \/ node.type # "dict"
            \/ ~HasKey(node, <<"class_type">>)
            \/ ~HasKey(node, <<"inputs">>)
        node_error(node) ==
            IF node.type # "dict" THEN "node_not_dict"
            ELSE IF ~HasKey(node, <<"class_type">>) THEN "no_class_type"
            ELSE "no_inputs"
        failing == IF workflow.type = "dict"
                      THEN {n \in 1..Len(workflow.val) :
                               bad(workflow.val[n][2])}
                      ELSE {}
        first == CHOOSE n \in failing : \A m \in failing : n <= m
    IN  IF workflow.type # "dict"
           THEN [is_valid |-> FALSE, error |-> "not_dict"]
        ELSE IF workflow.val = <<>>
           THEN [is_valid |-> FALSE, error |-> "empty"]
        ELSE IF failing # {}
           THEN [is_valid |-> FALSE,
                 error |-> node_error(workflow.val[first][2])]
        ELSE [is_valid |-> TRUE, error |-> None]

NoCall == [success |-> FALSE, error |-> "not_called"]
NoResponse == [success |-> FALSE, prompt_id |-> None, error |-> "not_called"]

\* No template call and no submit-workflow request has been made.
WorkflowIdle ==
    /\ template_parameters = NoCall
    /\ built = NoCall
    /\ sw_pc = "idle"
    /\ sw_workflow = PyOther("NoneType")
    /\ prompt_calls = 0
    /\ sw_response = NoResponse
    /\ client_pc = "idle"
    /\ validation = NoCall

\* The image_jobs table is shared with other writers (the migration scripts
\* read and update rows this service did not insert), so the followed image
\* row may already be there, as inserted: pending, nothing else set.
\* complete_video_job overwrites the body's job id with the path's.
Init ==
    /\ kind \in Kinds
    /\ event \in CompleteEvents
    /\ kind = "video" => event.body_id = event.job_id
    /\ rows \in IF kind = "image" THEN {{}, {PendingRow}} ELSE {{}}
    /\ createResult = "none"
    /\ edits = 0
    /\ store_faults = 0
    /\ destination = None
    /\ RequestsIdle
    /\ FeedIdle
    /\ workflow_name = "NonExistent"
    /\ parameters = <<>>
    /\ document = PyDict(<<>>)
    /\ WorkflowIdle
    /\ QueriesIdle

(***************************************************************************)
(* Job services                                                            *)
(***************************************************************************)

\* VideoJobService.create_job inserts a pending row.  ImageJobService
\* .create_job reads payload.project_id, a field CreateImageJobPayload does
\* not declare: the AttributeError is caught and the call returns failure
\* before the insert.
CreateJob ==
    /\ rows = {}
    /\ IF kind = "video"
          THEN /\ rows' = {PendingRow}
               /\ createResult' = "ok"
          ELSE /\ rows' = rows
               /\ createResult' = "error"
    /\ UNCHANGED store_faults
    /\ UNCHANGED <<kind, event, edits>>
    /\ UNCHANGED reqVars
    /\ UNCHANGED auxVars

\* No complete request is inside its upload loop or its thumbnail block.
\* Those steps read and write the handler's locals only, so they commute
\* with every table write of another call: a write that arrives during
\* them is taken when the handler stands at its next database call.
AtDatabaseCall == \A p \in Callers : pc[p] \notin {"upload", "thumbnail"}

\* update_to_processing: both services match on comfy_job_id; the update
\* rewrites every matching row.
UpdateToProcessing ==
    \E job_id \in Keys :
        LET match(r) == r.comfy_job_id = job_id
            f(r) == [r EXCEPT !.status = "processing"]
        IN  /\ edits < MaxEdits
            /\ AtDatabaseCall
            /\ \E r \in rows : match(r)
            /\ rows' = {IF match(r) THEN f(r) ELSE r : r \in rows}
            /\ edits' = edits + 1
            /\ UNCHANGED store_faults
            /\ UNCHANGED <<kind, event, createResult>>
            /\ UNCHANGED reqVars
            /\ UNCHANGED auxVars

\* An optional list of an update payload: <<>> is None, <<l>> is the list l.
OptionalUrlLists == {<<>>, << <<>> >>, << <<ComfyUrl(1)>> >>}

\* The row as update_job rewrites it.  The video service writes status and
\* output_video_urls when truthy and error_message when not None; the image
\* service writes each of the three when not None.
UpdateJobRow(k, r, st, urls, em) ==
    LET r1 == IF st # None THEN [r EXCEPT !.status = st] ELSE r
        writeUrls == IF k = "video" THEN urls # <<>> /\ urls[1] # <<>>
                                    ELSE urls # <<>>
        r2 == IF writeUrls THEN [r1 EXCEPT !.outputs = urls[1]] ELSE r1
    IN  IF em # None THEN [r2 EXCEPT !.error_message = em] ELSE r2

\* update_job: the video service matches on comfy_job_id, the image service
\* on id; the image service returns early when the payload sets nothing.
\* The video service treats an empty list like None (a truthiness test), so
\* for it the empty list is left out of the inputs.
UpdateJob ==
    \E job_id \in Keys, st \in JobStatus \cup {None},
       urls \in OptionalUrlLists, em \in ErrorMessages \cup {None} :
        LET match(r) == IF kind = "video" THEN r.comfy_job_id = job_id
                                          ELSE r.id = job_id
            f(r) == UpdateJobRow(kind, r, st, urls, em)
        IN  /\ edits < MaxEdits
            /\ AtDatabaseCall
            /\ \E r \in rows : match(r)
            /\ ~(kind = "image" /\ st = None /\ urls = <<>> /\ em = None)
            /\ ~(kind = "video" /\ urls = << <<>> >>)
            /\ rows' = {IF match(r) THEN f(r) ELSE r : r \in rows}
            /\ edits' = edits + 1
            /\ UNCHANGED store_faults
            /\ UNCHANGED <<kind, event, createResult>>
            /\ UNCHANGED reqVars
            /\ UNCHANGED auxVars

(***************************************************************************)
(* complete_video_job / complete_image_job                                 *)
(***************************************************************************)

\* A Supabase call of a complete handler returns or, while the store has
\* faults left, raises; both services turn the exception into their
\* not-found result.
StoreOutcomes == IF store_faults > 0 THEN BOOLEAN ELSE {FALSE}

StoreFaultsAfter(raises) ==
    IF raises THEN store_faults - 1 ELSE store_faults

\* .eq("comfy_job_id", id).single(): the row when exactly one matches; any
\* other count raises inside get_job_by_comfy_id, which then returns None.
GetJobByComfyId(job_id) ==
    LET m == {r \in rows : r.comfy_job_id = job_id}
    IN  IF Cardinality(m) = 1 THEN m ELSE {}

\* The handler returns: its locals are gone, the response stays.
Return(p, code) ==
    /\ pc' = [pc EXCEPT ![p] = "done"]
    /\ response' = [response EXCEPT ![p] = code]
    /\ payload' = [payload EXCEPT ![p] = NoPayload]
    /\ supabase_urls' = [supabase_urls EXCEPT ![p] = <<>>]
    /\ thumb_source' = [thumb_source EXCEPT ![p] = NoUrl]

\* The request arrives.  complete_image_job answers 400 when the body's job
\* id differs from the path's.  (Request 2 is the later arrival: the two
\* requests are alike, so the one that reads the job first is called 1.)
CompleteBegin(p) ==
    /\ pc[p] = "idle"
    /\ \A q \in Callers : q < p => pc[q] \notin {"idle", "get_job"}
    /\ IF kind = "image" /\ event.body_id # event.job_id
          THEN Return(p, "400")
          ELSE /\ pc' = [pc EXCEPT ![p] = "get_job"]
               /\ payload' = [payload EXCEPT ![p] =
                     [job_id |-> event.body_id, status |-> event.status,
                      output_urls |-> OutputRefs(event.refs),
                      error_message |-> event.error_message,
                      thumbnail_url |-> None]]
               /\ UNCHANGED <<response, supabase_urls, thumb_source>>
    /\ UNCHANGED store_faults
    /\ UNCHANGED <<kind, event, rows, createResult, edits, existing_status,
                   project_id, ranPipeline, driveOutcome, auxVars>>

\* The branch condition of the materialisation block.
RunsPipeline(pl) == pl.status = "completed" /\ pl.output_urls # <<>>

\* The guard that skips a job already completed.
AlreadyCompleted(ex) == \E r \in ex : r.status = "completed"

\* existing_job is read, project_id is taken from it and the guard is
\* evaluated.  The video select list has no project_id column, so the
\* VideoJob field keeps its default None.  ImageJob declares no project_id
\* field: when a row was found, reading existing_job.project_id raises
\* AttributeError out of the handler (HTTP 500).
CheckExisting(p) ==
    /\ pc[p] = "get_job"
    /\ \E raises \in StoreOutcomes :
       LET ex == IF raises THEN {} ELSE GetJobByComfyId(payload[p].job_id)
       IN  /\ store_faults' = StoreFaultsAfter(raises)
           /\ existing_status' = [existing_status EXCEPT ![p] =
                 IF ex = {} THEN "none" ELSE (CHOOSE r \in ex : TRUE).status]
           /\ project_id' = [project_id EXCEPT ![p] = None]
           /\ IF kind = "image" /\ ex # {}
                 THEN /\ Return(p, "500")
                      /\ UNCHANGED ranPipeline
                 ELSE IF AlreadyCompleted(ex)
                 THEN /\ Return(p, "200")
                      /\ UNCHANGED ranPipeline
                 ELSE IF RunsPipeline(payload[p])
                 THEN /\ pc' = [pc EXCEPT ![p] = "upload"]
                      /\ ranPipeline' = [ranPipeline EXCEPT ![p] = TRUE]
                      /\ UNCHANGED <<response, payload, supabase_urls,
                                     thumb_source>>
                 ELSE /\ pc' = [pc EXCEPT ![p] = "complete_job"]
                      /\ UNCHANGED <<response, payload, supabase_urls,
                                     thumb_source, ranPipeline>>
    /\ UNCHANGED <<kind, event, rows, createResult, edits, driveOutcome,
                   auxVars>>

\* The archive folder of a job: the project_id of a Create*JobPayload.
ProjectIds == {"folder-1"}

\* f"{idx+1:03d}" for the indexes a payload can have.
Pad3(i) == "00" \o ToString(i)

\* The filenames the Google Drive block uploads once the folder exists.
\* complete_video_job uploads supabase_urls[0] only, as '<job id>.mp4';
\* complete_image_job uploads every element, as '<job id>.png' when there
\* is one and '<job id>_<index>.png' when there are more.
DriveFilenames(k, job_id, urls) ==
    IF k = "video"
       THEN << job_id \o ".mp4" >>
       ELSE [i \in 1..Len(urls) |->
                IF Len(urls) > 1 THEN job_id \o "_" \o Pad3(i) \o ".png"
                                 ELSE job_id \o ".png"]

DriveOutcomes ==
    {"uploaded", "folder_failed", "download_failed", "upload_failed",
     "raised"}

\* The Google Drive block, inside try/except: entered only when project_id
\* is set; whatever happens in it, it writes nothing to the payload.
GoogleDriveUpload(p) ==
    IF project_id[p] # None /\ supabase_urls'[p] # <<>>
       THEN \E out \in DriveOutcomes :
                driveOutcome' = [driveOutcome EXCEPT ![p] = out]
       ELSE driveOutcome' = [driveOutcome EXCEPT ![p] = "skipped"]

\* What one pass of the upload loop appends: the Supabase URL when
\* upload_*_from_url succeeded, the renderer URL otherwise.
UploadedUrl(p, i, comfy_url, success_upload) ==
    IF success_upload THEN SupabaseUrl(p, i) ELSE comfy_url

\* As UploadFromUrl, leaving the loop after its first pass.
UploadFromUrlFirstOnly(p) ==
    /\ pc[p] = "upload"
    /\ \E success_upload \in BOOLEAN :
        LET i == Len(supabase_urls[p]) + 1
            comfy_url == payload[p].output_urls[i]
            urls == Append(supabase_urls[p],
                           UploadedUrl(p, i, comfy_url, success_upload))
            last == TRUE
        IN  /\ supabase_urls' = [supabase_urls EXCEPT ![p] = urls]
            /\ payload' = IF last
                             THEN [payload EXCEPT ![p].output_urls = urls]
                             ELSE payload
            /\ pc' = [pc EXCEPT ![p] =
                         IF ~last THEN "upload"
                         ELSE IF kind = "video" THEN "thumbnail"
                         ELSE "complete_job"]
            /\ IF last /\ kind = "image"
                  THEN GoogleDriveUpload(p)
                  ELSE UNCHANGED driveOutcome
            /\ UNCHANGED thumb_source
    /\ UNCHANGED store_faults
    /\ UNCHANGED <<kind, event, rows, createResult, edits, existing_status,
                   project_id, ranPipeline, response, auxVars>>

\* One pass of the loop over payload.output_*_urls: download from the
\* renderer and upload to Supabase Storage.  After the last pass the
\* payload's list is replaced by supabase_urls; complete_image_job, which
\* has no thumbnail block, goes on to the Google Drive block.
UploadFromUrl(p) ==
    /\ pc[p] = "upload"
    /\ \E success_upload \in BOOLEAN :
        LET i == Len(supabase_urls[p]) + 1
            comfy_url == payload[p].output_urls[i]
            urls == Append(supabase_urls[p],
                           UploadedUrl(p, i, comfy_url, success_upload))
            last == i = Len(payload[p].output_urls)
        IN  /\ supabase_urls' = [supabase_urls EXCEPT ![p] = urls]
            /\ payload' = IF last
                             THEN [payload EXCEPT ![p].output_urls = urls]
                             ELSE payload
            /\ pc' = [pc EXCEPT ![p] =
                         IF ~last THEN "upload"
                         ELSE IF kind = "video" THEN "thumbnail"
                         ELSE "complete_job"]
            /\ IF last /\ kind = "image"
                  THEN GoogleDriveUpload(p)
                  ELSE UNCHANGED driveOutcome
            /\ UNCHANGED thumb_source
    /\ UNCHANGED store_faults
    /\ UNCHANGED <<kind, event, rows, createResult, edits, existing_status,
                   project_id, ranPipeline, response, auxVars>>

\* As ThumbnailSource, taking the first URL that was stored durably.
ThumbnailSourceFirstDurable(urls) ==
    LET durable == {i \in 1..Len(urls) : urls[i][1] = "supabase"}
    IN  IF durable = {} THEN urls[1]
        ELSE urls[CHOOSE i \in durable : \A j \in durable : i <= j]

\* The video given to the thumbnail service: the first element of
\* supabase_urls, a stored object's URL or a renderer URL.
ThumbnailSource(urls) == urls[1]

ThumbOutcomes == {"ok", "failed", "raised"}

\* payload.thumbnail_url after the thumbnail block: only a success result
\* with a URL sets it; a failure result and a raised exception are logged.
ThumbnailUrlAfter(pl, out) ==
    IF out = "ok" THEN ThumbUrl(pl.job_id) ELSE pl.thumbnail_url

\* As GenerateThumbnail, without the try/except around the call: a raised
\* exception leaves the handler as HTTP 500 before the row update.
GenerateThumbnailUncaught(p) ==
    /\ pc[p] = "thumbnail"
    /\ \E out \in ThumbOutcomes :
        IF out = "raised"
           THEN /\ Return(p, "500")
                /\ UNCHANGED driveOutcome
           ELSE /\ payload' = [payload EXCEPT ![p].thumbnail_url =
                                  ThumbnailUrlAfter(payload[p], out)]
                /\ pc' = [pc EXCEPT ![p] = "complete_job"]
                /\ UNCHANGED <<supabase_urls, response>>
                /\ thumb_source' = [thumb_source EXCEPT ![p] =
                                        ThumbnailSource(supabase_urls[p])]
                /\ GoogleDriveUpload(p)
    /\ UNCHANGED store_faults
    /\ UNCHANGED <<kind, event, rows, createResult, edits, existing_status,
                   project_id, ranPipeline, auxVars>>

\* generate_thumbnail_from_url on supabase_urls[0], inside try/except,
\* and the Google Drive block after it.
GenerateThumbnail(p) ==
    /\ pc[p] = "thumbnail"
    /\ \E out \in ThumbOutcomes :
        payload' = [payload EXCEPT ![p].thumbnail_url =
                       ThumbnailUrlAfter(payload[p], out)]
    /\ thumb_source' = [thumb_source EXCEPT ![p] =
                            ThumbnailSource(supabase_urls[p])]
    /\ pc' = [pc EXCEPT ![p] = "complete_job"]
    /\ UNCHANGED supabase_urls
    /\ GoogleDriveUpload(p)
    /\ UNCHANGED store_faults
    /\ UNCHANGED <<kind, event, rows, createResult, edits, existing_status,
                   project_id, ranPipeline, response, auxVars>>

\* As CompleteJobRow, with the error_message line of update_data left out.
CompleteJobRowNoMessage(k, r, pl) ==
    LET r1 == [r EXCEPT !.status = pl.status]
        r2 == IF pl.output_urls # <<>>
                 THEN [r1 EXCEPT !.outputs = pl.output_urls] ELSE r1
    IN  IF k = "video" /\ pl.thumbnail_url # None
           THEN [r2 EXCEPT !.thumbnail_url = pl.thumbnail_url] ELSE r2

\* update_data of complete_job: status always; output urls, error_message
\* and (video only) thumbnail_url when truthy.
CompleteJobRow(k, r, pl) ==
    LET r1 == [r EXCEPT !.status = pl.status]
        r2 == IF pl.output_urls # <<>>
                 THEN [r1 EXCEPT !.outputs = pl.output_urls] ELSE r1
        r3 == IF pl.error_message # None
                 THEN [r2 EXCEPT !.error_message = pl.error_message] ELSE r2
    IN  IF k = "video" /\ pl.thumbnail_url # None
           THEN [r3 EXCEPT !.thumbnail_url = pl.thumbnail_url] ELSE r3

\* The column complete_job matches on: the video service uses comfy_job_id;
\* the image service tries id first and comfy_job_id when no row matched.
CompleteMatch(k, tbl, job_id, r) ==
    IF k = "video" THEN r.comfy_job_id = job_id
    ELSE IF \E q \in tbl : q.id = job_id THEN r.id = job_id
    ELSE r.comfy_job_id = job_id

\* service.complete_job and the handler's return: 200 with the updated row
\* on a match; without one, or when the update raised, 404 (video) or
\* success=False (image).  There is one attempt.
CompleteJob(p) ==
    /\ pc[p] = "complete_job"
    /\ \E raises \in StoreOutcomes :
       LET pl == payload[p]
           match(r) == ~raises /\ CompleteMatch(kind, rows, pl.job_id, r)
           f(r) == CompleteJobRow(kind, r, pl)
       IN  /\ store_faults' = StoreFaultsAfter(raises)
           /\ rows' = {IF match(r) THEN f(r) ELSE r : r \in rows}
           /\ Return(p, IF \E r \in rows : match(r) THEN "200"
                        ELSE IF kind = "video" THEN "404" ELSE "failed")
    /\ UNCHANGED <<kind, event, createResult, edits, existing_status,
                   project_id, ranPipeline, driveOutcome, auxVars>>

Next ==
    \/ CreateJob
    \/ UpdateToProcessing
    \/ UpdateJob
    \/ \E p \in Callers : CompleteBegin(p)
    \/ \E p \in Callers : CheckExisting(p)
    \/ \E p \in Callers : UploadFromUrl(p)
    \/ \E p \in Callers : GenerateThumbnail(p)
    \/ \E p \in Callers : CompleteJob(p)

Spec == Init /\ [][Next]_vars

(***************************************************************************)
(* The archive stage: jobs created with and without a project_id          *)
(***************************************************************************)

\* The job followed was created with an archive folder or without one;
\* no update_job call interferes.
ArchiveInit ==
    /\ kind \in Kinds
    /\ event \in CompleteEvents
    /\ kind = "video" => event.body_id = event.job_id
    /\ rows \in IF kind = "image" THEN {{}, {PendingRow}} ELSE {{}}
    /\ createResult = "none"
    /\ edits = 0
    /\ store_faults = 0
    /\ destination \in ProjectIds \cup {None}
    /\ RequestsIdle
    /\ FeedIdle
    /\ workflow_name = "NonExistent"
    /\ parameters = <<>>
    /\ document = PyDict(<<>>)
    /\ WorkflowIdle
    /\ QueriesIdle

CompleteNext ==
    \/ CreateJob
    \/ \E p \in Callers : CompleteBegin(p)
    \/ \E p \in Callers : CheckExisting(p)
    \/ \E p \in Callers : UploadFromUrl(p)
    \/ \E p \in Callers : GenerateThumbnail(p)
    \/ \E p \in Callers : CompleteJob(p)

ArchiveSpec == ArchiveInit /\ [][CompleteNext]_vars

(***************************************************************************)
(* The complete handlers over a store whose calls can raise               *)
(***************************************************************************)

FaultInit ==
    /\ kind \in Kinds
    /\ event \in CompleteEvents
    /\ kind = "video" => event.body_id = event.job_id
    /\ rows \in IF kind = "image" THEN {{}, {PendingRow}} ELSE {{}}
    /\ createResult = "none"
    /\ edits = 0
    /\ store_faults \in 0..MaxFaults
    /\ destination = None
    /\ RequestsIdle
    /\ FeedIdle
    /\ workflow_name = "NonExistent"
    /\ parameters = <<>>
    /\ document = PyDict(<<>>)
    /\ WorkflowIdle
    /\ QueriesIdle

FaultSpec == FaultInit /\ [][CompleteNext]_vars

\* A request that has arrived runs to its response: the event loop keeps
\* scheduling a handler that can continue.  Nothing makes a request arrive.
HandlerStep(p) ==
    \/ CheckExisting(p)
    \/ UploadFromUrl(p)
    \/ GenerateThumbnail(p)
    \/ CompleteJob(p)

FaultFairSpec ==
    /\ FaultInit
    /\ [][CompleteNext]_vars
    /\ \A p \in Callers : WF_vars(HandlerStep(p))

(***************************************************************************)
(* Feed cache: core/cache.py and VideoJobService.get_feed_jobs             *)
(***************************************************************************)

\* As get_cached, on a plain dict: an entry is returned however old it is.
get_cached_no_expiry(key) ==
    IF Cached(key) THEN <<TRUE, CacheEntry(key).data>>
    ELSE <<FALSE, NoEntry.data>>

\* get_cached: TTLCache.get returns the value while timer() < expires and
\* the default None from then on.  The result is <<found, value>>.
get_cached(key) ==
    IF Cached(key) /\ now < CacheEntry(key).expires
       THEN <<TRUE, CacheEntry(key).data>>
       ELSE <<FALSE, NoEntry.data>>

\* TTLCache.expire: the links whose time has come are dropped.
Expire(links) ==
    LET Live(e) == now < e.expires
    IN  SelectSeq(links, Live)

\* As set_cached, on a dict without maxsize: nothing is evicted.
set_cached_unbounded(key, data) ==
    LET Other(e) == e.key # key
        others == SelectSeq(Expire(feed_cache), Other)
    IN  feed_cache' =
            Append(others, [key |-> key, data |-> data,
                            expires |-> now + CACHE_TTL_SECONDS])

\* set_cached: TTLCache.__setitem__ expires old links, pops the oldest
\* links while a new key would not fit, and puts the key's link, stamped
\* with timer() + ttl, at the end of the list.
set_cached(key, data) ==
    LET live == Expire(feed_cache)
        Other(e) == e.key # key
        others == SelectSeq(live, Other)
        isNew == Len(others) = Len(live)
        excess == Len(live) + 1 - CACHE_MAX_SIZE
        kept == IF isNew /\ excess > 0
                   THEN SubSeq(live, excess + 1, Len(live))
                   ELSE others
    IN  feed_cache' =
            Append(kept, [key |-> key, data |-> data,
                          expires |-> now + CACHE_TTL_SECONDS])

\* The (data, total_count, None) tuple of the feed query on the table:
\* the rows of the page .range(offset, offset + limit - 1) and the exact
\* count.  The table holds one job at most, so the page of a later offset
\* is empty.
FeedQuery(status, offset) ==
    LET data == {r \in rows : status = None \/ r.status = status}
    IN  <<IF offset = 0 THEN data ELSE {}, Cardinality(data)>>

\* get_feed_jobs: a cache hit is returned as it is; on a miss the table is
\* queried and the answer cached, unless the query raised.
GetFeedJobsAt(offset) ==
    \E status \in FeedFilters, raised \in BOOLEAN :
        LET cache_key == FeedKey(status, offset)
            cached == get_cached(cache_key)
        IN  /\ IF cached[1]
                  THEN /\ ~raised
                       /\ feedResult' = [key |-> cache_key,
                                         data |-> cached[2],
                                         hit |-> TRUE, error |-> FALSE,
                                         replaced |-> FALSE]
                       /\ UNCHANGED feed_cache
                  ELSE IF raised
                  THEN /\ feedResult' = [key |-> cache_key,
                                         data |-> <<{}, 0>>,
                                         hit |-> FALSE, error |-> TRUE,
                                         replaced |-> FALSE]
                       /\ UNCHANGED feed_cache
                  ELSE /\ feedResult' = [key |-> cache_key,
                                         data |-> FeedQuery(status, offset),
                                         hit |-> FALSE, error |-> FALSE,
                                         replaced |-> Cached(cache_key)]
                       /\ set_cached(cache_key, FeedQuery(status, offset))
            /\ UNCHANGED store_faults
            /\ UNCHANGED <<kind, event, rows, createResult, edits, now>>
            /\ UNCHANGED reqVars
            /\ UNCHANGED <<workflowVars, inputVars>>

\* get_feed_jobs with the default offset.
GetFeedJobs == GetFeedJobsAt(0)

\* The cache's timer (time.monotonic) advances.
Tick ==
    /\ now < MaxTime
    /\ now' = now + 1
    /\ UNCHANGED store_faults
    /\ UNCHANGED <<kind, event, rows, createResult, edits, feed_cache,
                   feedResult>>
    /\ UNCHANGED reqVars
    /\ UNCHANGED <<workflowVars, inputVars>>

\* The feed is followed on the video_jobs table; no complete request is
\* delivered, the table is written by the job service calls.
FeedInit ==
    /\ kind = "video"
    /\ event = [job_id |-> ComfyJobId, body_id |-> ComfyJobId,
                status |-> "completed", refs |-> 0, error_message |-> None]
    /\ rows = {}
    /\ createResult = "none"
    /\ edits = 0
    /\ store_faults = 0
    /\ destination = None
    /\ RequestsIdle
    /\ FeedIdle
    /\ workflow_name = "NonExistent"
    /\ parameters = <<>>
    /\ document = PyDict(<<>>)
    /\ WorkflowIdle
    /\ QueriesIdle

FeedNext ==
    \/ CreateJob
    \/ UpdateToProcessing
    \/ UpdateJob
    \/ GetFeedJobs
    \/ Tick

FeedSpec == FeedInit /\ [][FeedNext]_vars

(***************************************************************************)
(* The feed cache at its capacity                                          *)
(***************************************************************************)

\* The offsets of the feed reads followed: a page cached first and a page
\* cached by no earlier read.
HotOffsets == {1, CACHE_MAX_SIZE + 1}

HotKeys == {FeedKey(status, offset) :
               status \in FeedFilters, offset \in HotOffsets}

\* The prefixes given to invalidate_pattern: every key of the video feed,
\* and the keys of another table's feed.
Prefixes == {<<"feed", ":", "video_jobs", ":">>,
             <<"feed", ":", "image_jobs", ":">>}

\* str.startswith
StartsWith(text, prefix) ==
    /\ Len(prefix) <= Len(text)
    /\ SubSeq(text, 1, Len(prefix)) = prefix

\* The steps of the cache functions leave everything but the cache alone.
CacheOnly ==
    /\ UNCHANGED store_faults
    /\ UNCHANGED <<kind, event, rows, createResult, edits, now, feedResult>>
    /\ UNCHANGED reqVars
    /\ UNCHANGED <<workflowVars, inputVars>>

\* invalidate: `key in _feed_cache` holds for a link that has not expired;
\* the link is then deleted.
Invalidate ==
    \E key \in HotKeys :
        LET Other(e) == e.key # key
        IN  /\ feed_cache' =
                  IF Cached(key) /\ now < CacheEntry(key).expires
                     THEN SelectSeq(feed_cache, Other)
                     ELSE feed_cache
            /\ CacheOnly

\* invalidate_pattern: the keys that have not expired and start with the
\* prefix are deleted.
InvalidatePattern ==
    \E prefix \in Prefixes :
        LET Remove(e) == now < e.expires /\ StartsWith(e.key, prefix)
            Keep(e) == ~Remove(e)
        IN  /\ feed_cache' = SelectSeq(feed_cache, Keep)
            /\ CacheOnly

\* clear_all: TTLCache.clear pops every link.
ClearAll ==
    /\ feed_cache' = <<>>
    /\ CacheOnly

\* The cache as n feed reads of successive pages, made at time 0 on the
\* empty table, leave it.
CachePrefill(n) ==
    [i \in 1..n |-> [key |-> FeedKey(None, i), data |-> <<{}, 0>>,
                     expires |-> CACHE_TTL_SECONDS]]

\* The cache was filled, to its capacity or one entry short of it, before
\* the job was created; the reads followed are made in the same second or
\* in the second in which the entries expire.
CacheInit ==
    /\ kind = "video"
    /\ event = [job_id |-> ComfyJobId, body_id |-> ComfyJobId,
                status |-> "completed", refs |-> 0, error_message |-> None]
    /\ rows = {PendingRow}
    /\ createResult = "none"
    /\ edits = 0
    /\ store_faults = 0
    /\ destination = None
    /\ RequestsIdle
    /\ now \in {0, CACHE_TTL_SECONDS}
    /\ feed_cache \in {CachePrefill(n) :
                          n \in {CACHE_MAX_SIZE - 1, CACHE_MAX_SIZE}}
    /\ feedResult = NoResult
    /\ workflow_name = "NonExistent"
    /\ parameters = <<>>
    /\ document = PyDict(<<>>)
    /\ WorkflowIdle
    /\ QueriesIdle

CacheNext ==
    \/ \E offset \in HotOffsets : GetFeedJobsAt(offset)
    \/ Invalidate
    \/ InvalidatePattern
    \/ ClearAll

CacheSpec == CacheInit /\ [][CacheNext]_vars

(***************************************************************************)
(* make_feed_cache_key on pairs of feed queries                            *)
(***************************************************************************)

\* Nothing but the pure feed functions is followed.
Quiet ==
    /\ kind = "video"
    /\ event = [job_id |-> ComfyJobId, body_id |-> ComfyJobId,
                status |-> "completed", refs |-> 0, error_message |-> None]
    /\ rows = {}
    /\ createResult = "none"
    /\ edits = 0
    /\ store_faults = 0
    /\ destination = None
    /\ RequestsIdle
    /\ FeedIdle
    /\ workflow_name = "NonExistent"
    /\ parameters = <<>>
    /\ document = PyDict(<<>>)
    /\ WorkflowIdle

QuietStep ==
    /\ UNCHANGED <<jobVars, reqVars, feedVars, workflowVars, destination>>

\* The query parameters a client can send: any str for the three filters
\* (FastAPI's Optional[str] = Query(None)), among them the empty str, the
\* literal 'all' and values that hold ':'.
KeyTables == {<<"video_jobs">>, <<"image_jobs">>}
KeyUsers ==
    {NoneText, <<>>, <<"all">>, <<"a">>, <<"a", ":", "w", ":", "b">>}
KeyWorkflows == {NoneText, <<"b">>, <<"b", ":", "w", ":", "all">>}
KeyStatuses == {NoneText, <<"completed">>}
KeyLimits == {5, 50}
KeyOffsets == {0, 5}

KeyQueries ==
    {KeyQuery(t, u, w, st, l, o) :
        t \in KeyTables, u \in KeyUsers, w \in KeyWorkflows,
        st \in KeyStatuses, l \in KeyLimits, o \in KeyOffsets}

KeyOf(q) ==
    make_feed_cache_key(q.table, q.user_id, q.workflow, q.status, q.limit,
                        q.offset)

\* The cache keys of two feed queries are made.
MakeKeys ==
    /\ key_pair = NoKeys
    /\ key_pair' = <<KeyOf(key_queries[1]), KeyOf(key_queries[2])>>
    /\ UNCHANGED <<key_queries, feed_store, feed_request, feed_page>>
    /\ QuietStep

KeyInit ==
    /\ Quiet
    /\ key_queries \in KeyQueries \X KeyQueries
    /\ key_pair = NoKeys
    /\ feed_store = <<>>
    /\ feed_request = [limit |-> 50, offset |-> 0, user_id |-> None]
    /\ feed_page = NoPage

KeyNext == MakeKeys

KeySpec == KeyInit /\ [][KeyNext]_vars

(***************************************************************************)
(* VideoJobService.get_recent_jobs_feed                                    *)
(***************************************************************************)

\* The owners of video_jobs rows.
FeedOwners == {"u1", "u2"}

\* Where the job created at a given time is: in no table, in the legacy
\* table multitalk_jobs (which has no user_id among the columns read), or
\* in video_jobs with the given user_id.
Places == {"absent", "legacy"} \cup FeedOwners

FeedStores == [1..MaxFeedRows -> Places]

FeedRequests ==
    [limit : {1, 2}, offset : 0..3, user_id : FeedOwners \cup {None}]

RECURSIVE SortDesc(_)
\* .order("created_at", desc=True) and list.sort(key=created_at,
\* reverse=True) on jobs with different created_at values.
SortDesc(S) ==
    IF S = {} THEN <<>>
    ELSE LET m == CHOOSE x \in S : \A y \in S : y <= x
         IN  <<m>> \o SortDesc(S \ {m})

\* .range(0, n - 1): the first n rows of the ordered result.
Range(seq, n) == SubSeq(seq, 1, IF n < Len(seq) THEN n ELSE Len(seq))

\* all_jobs[offset:offset + limit]
Slice(seq, offset, limit) ==
    SubSeq(seq, offset + 1,
           IF offset + limit < Len(seq) THEN offset + limit ELSE Len(seq))

Elements(seq) == {seq[i] : i \in 1..Len(seq)}

\* The feed item of the job created at time t.
FeedItem(store, t) ==
    [created_at |-> t,
     workflow_name |-> IF store[t] = "legacy" THEN "legacy" ELSE "video"]

\* The video_jobs rows of the query: the user_id filter is applied when
\* it is truthy.
VideoMatches(store, user_id) ==
    {t \in DOMAIN store :
        /\ store[t] \in FeedOwners
        /\ user_id = None \/ store[t] = user_id}

\* The multitalk_jobs rows of the query: no filter is applied.
LegacyMatches(store) == {t \in DOMAIN store : store[t] = "legacy"}

\* get_recent_jobs_feed: the first limit * 2 rows of each table, merged,
\* sorted by created_at descending and sliced.
get_recent_jobs_feed(store, limit, offset, user_id) ==
    LET video == Range(SortDesc(VideoMatches(store, user_id)), limit * 2)
        legacy == Range(SortDesc(LegacyMatches(store)), limit * 2)
        all_jobs == SortDesc(Elements(video) \cup Elements(legacy))
        paginated == Slice(all_jobs, offset, limit)
    IN  [i \in 1..Len(paginated) |-> FeedItem(store, paginated[i])]

GetRecentJobsFeed ==
    /\ ~feed_page.called
    /\ feed_page' =
          [called |-> TRUE,
           items |-> get_recent_jobs_feed(feed_store, feed_request.limit,
                                          feed_request.offset,
                                          feed_request.user_id)]
    /\ UNCHANGED <<key_queries, key_pair, feed_store, feed_request>>
    /\ QuietStep

RecentFeedInit ==
    /\ Quiet
    /\ key_queries = <<DefaultQuery, DefaultQuery>>
    /\ key_pair = NoKeys
    /\ feed_store \in FeedStores
    /\ feed_request \in FeedRequests
    /\ feed_page = NoPage

RecentFeedNext == GetRecentJobsFeed

RecentFeedSpec == RecentFeedInit /\ [][RecentFeedNext]_vars

(***************************************************************************)
(* Template calls, submit_workflow and the client's create operation       *)
(***************************************************************************)

ParamKeys == {"PROMPT", "WIDTH"}

\* Parameter values of each type build_workflow distinguishes: an int, a
\* bool, a plain str, a str of the characters the escaping handles, strs
\* that read like a placeholder, and a str that reads like a Python boolean
\* after a colon ('x: True,').
ParamValues ==
    {PyInt("640"), PyBool("True"), PyStr(<<"x">>),
     PyStr(<<"x", Q, BS, NL, CR, TAB>>),
     PyStr(Placeholder("WIDTH")), PyStr(<<Q>> \o Placeholder("WIDTH")),
     PyStr(<<"x", ":", " ", "True", ",">>)}

\* The parameters dict of a request: distinct keys, in insertion order.
ParameterDicts ==
    {<<>>}
    \cup {<< <<k, v>> >> : k \in ParamKeys, v \in ParamValues}
    \cup {<< <<ks[1], v1>>, <<ks[2], v2>> >> :
             ks \in {x \in ParamKeys \X ParamKeys : x[1] # x[2]},
             v1 \in ParamValues, v2 \in ParamValues}

GetTemplateParameters ==
    /\ template_parameters' = get_template_parameters(workflow_name)
    /\ UNCHANGED <<workflow_name, parameters, built, sw_pc, sw_workflow,
                   prompt_calls, sw_response, client_pc>>
    /\ UNCHANGED <<jobVars, reqVars, feedVars, inputVars, document,
                   validation>>

BuildWorkflow ==
    /\ built' = build_workflow(workflow_name, parameters)
    /\ UNCHANGED <<workflow_name, parameters, template_parameters, sw_pc,
                   sw_workflow, prompt_calls, sw_response, client_pc>>
    /\ UNCHANGED <<jobVars, reqVars, feedVars, inputVars, document,
                   validation>>

\* submit_workflow returns a WorkflowSubmitResponse.
SubmitReturn(success, prompt_id, error) ==
    /\ sw_pc' = "done"
    /\ sw_response' = [success |-> success, prompt_id |-> prompt_id,
                       error |-> error]

\* submit_workflow, first call: build_workflow.
SubmitBuild ==
    /\ sw_pc = "idle"
    /\ LET result == build_workflow(workflow_name, parameters)
       IN  IF ~result.success
              THEN /\ SubmitReturn(FALSE, None, "build_failed")
                   /\ UNCHANGED sw_workflow
              ELSE /\ sw_pc' = "validate"
                   /\ sw_workflow' = result.workflow
                   /\ UNCHANGED sw_response
    /\ UNCHANGED <<workflow_name, parameters, template_parameters, built,
                   prompt_calls, client_pc>>
    /\ UNCHANGED <<jobVars, reqVars, feedVars, inputVars, document,
                   validation>>

\* As SubmitValidate, with the validation result ignored.
SubmitValidateIgnored ==
    /\ sw_pc = "validate"
    /\ sw_pc' = "submit"
    /\ UNCHANGED sw_response
    /\ UNCHANGED <<workflow_name, parameters, template_parameters, built,
                   sw_workflow, prompt_calls, client_pc>>
    /\ UNCHANGED <<jobVars, reqVars, feedVars, inputVars, document,
                   validation>>

\* submit_workflow, second call: validate_workflow.
SubmitValidate ==
    /\ sw_pc = "validate"
    /\ IF ~validate_workflow(sw_workflow).is_valid
          THEN SubmitReturn(FALSE, None, "validation_failed")
          ELSE /\ sw_pc' = "submit"
               /\ UNCHANGED sw_response
    /\ UNCHANGED <<workflow_name, parameters, template_parameters, built,
                   sw_workflow, prompt_calls, client_pc>>
    /\ UNCHANGED <<jobVars, reqVars, feedVars, inputVars, document,
                   validation>>

\* What the renderer's /prompt request can do.
PromptOutcomes == {"accepted", "rejected", "no_prompt_id", "timeout"}

\* As SubmitPrompt, marking the job failed when the submission fails.
SubmitPromptFailsJob ==
    /\ sw_pc = "submit"
    /\ prompt_calls' = prompt_calls + 1
    /\ \E outcome \in PromptOutcomes :
          IF outcome = "accepted"
             THEN /\ SubmitReturn(TRUE, ComfyJobId, None)
                  /\ UNCHANGED rows
             ELSE /\ SubmitReturn(FALSE, None, outcome)
                  /\ rows' = {[r EXCEPT !.status = "failed"] : r \in rows}
    /\ UNCHANGED <<workflow_name, parameters, template_parameters, built,
                   sw_workflow, client_pc>>
    /\ UNCHANGED store_faults
    /\ UNCHANGED <<kind, event, createResult, edits>>
    /\ UNCHANGED <<reqVars, feedVars, inputVars, document,
                   validation>>

\* submit_workflow, third call: submit_prompt posts the workflow to the
\* renderer; its (success, prompt_id, error) is the response.
SubmitPrompt ==
    /\ sw_pc = "submit"
    /\ prompt_calls' = prompt_calls + 1
    /\ \E outcome \in PromptOutcomes :
          IF outcome = "accepted"
             THEN SubmitReturn(TRUE, ComfyJobId, None)
             ELSE SubmitReturn(FALSE, None, outcome)
    /\ UNCHANGED rows
    /\ UNCHANGED <<workflow_name, parameters, template_parameters, built,
                   sw_workflow, client_pc>>
    /\ UNCHANGED store_faults
    /\ UNCHANGED <<kind, event, createResult, edits>>
    /\ UNCHANGED <<reqVars, feedVars, inputVars, document,
                   validation>>

\* The row create_job inserts for a payload with this comfy_job_id (None
\* values are dropped from the insert, the column stays null).
InsertedRow(comfy_job_id) ==
    [PendingRow EXCEPT !.comfy_job_id = comfy_job_id]

\* The client's create operation persists the job before it submits:
\* create_job with no renderer id yet.
ClientPersist ==
    /\ client_pc = "idle" /\ sw_pc = "idle"
    /\ rows = {}
    /\ rows' = {InsertedRow(None)}
    /\ createResult' = "ok"
    /\ client_pc' = "persisted"
    /\ UNCHANGED store_faults
    /\ UNCHANGED <<kind, event, edits>>
    /\ UNCHANGED <<workflow_name, parameters, template_parameters, built,
                   sw_pc, sw_workflow, prompt_calls, sw_response>>
    /\ UNCHANGED <<reqVars, feedVars, inputVars, document,
                   validation>>

\* The create operation ends when submit-workflow has answered: the
\* renderer id is recorded on the row, or the row is left as it is.
ClientFinish ==
    /\ client_pc = "persisted" /\ sw_pc = "done"
    /\ IF sw_response.success
          THEN /\ rows' = {[r EXCEPT !.comfy_job_id = sw_response.prompt_id] :
                              r \in rows}
               /\ client_pc' = "submitted"
          ELSE /\ UNCHANGED rows
               /\ client_pc' = "submit_failed"
    /\ UNCHANGED store_faults
    /\ UNCHANGED <<kind, event, createResult, edits>>
    /\ UNCHANGED <<workflow_name, parameters, template_parameters, built,
                   sw_pc, sw_workflow, prompt_calls, sw_response>>
    /\ UNCHANGED <<reqVars, feedVars, inputVars, document,
                   validation>>

\* The documents a validate_workflow call is given: values that are not
\* dicts, and dicts of up to two nodes, a node being a non-dict or a dict
\* with or without class_type and with inputs absent, a dict or a non-dict.
NodeValues ==
    {PyInt("5"), PyStr(<<"x">>)}
    \cup {PyDict(c \o i) :
             c \in {<<>>, <<ClassType>>},
             i \in {<<>>, <<Inputs(<<>>)>>,
                    << <<(<<"inputs">>), PyInt("5")>> >>,
                    << <<(<<"inputs">>), PyStr(<<"x">>)>> >>}}

Documents ==
    {PyInt("5"), PyStr(<<"x">>), PyOther("NoneType"), PyDict(<<>>)}
    \cup {PyDict(<< <<(<<"1">>), n>> >>) : n \in NodeValues}
    \cup {PyDict(<< <<(<<"1">>), n1>>, <<(<<"2">>), n2>> >>) :
             n1 \in NodeValues, n2 \in NodeValues}

ValidateWorkflow ==
    /\ validation' = validate_workflow(document)
    /\ UNCHANGED <<workflow_name, parameters, template_parameters, built,
                   sw_pc, sw_workflow, prompt_calls, sw_response, client_pc,
                   document>>
    /\ UNCHANGED <<jobVars, reqVars, feedVars, inputVars>>

ValidateInit ==
    /\ kind = "video"
    /\ event = [job_id |-> ComfyJobId, body_id |-> ComfyJobId,
                status |-> "completed", refs |-> 0, error_message |-> None]
    /\ rows = {}
    /\ createResult = "none"
    /\ edits = 0
    /\ store_faults = 0
    /\ destination = None
    /\ RequestsIdle
    /\ FeedIdle
    /\ workflow_name = "NonExistent"
    /\ parameters = <<>>
    /\ document \in Documents
    /\ WorkflowIdle
    /\ QueriesIdle

ValidateNext == ValidateWorkflow

ValidateSpec == ValidateInit /\ [][ValidateNext]_vars

WorkflowInit ==
    /\ kind = "video"
    /\ event = [job_id |-> ComfyJobId, body_id |-> ComfyJobId,
                status |-> "completed", refs |-> 0, error_message |-> None]
    /\ rows = {}
    /\ createResult = "none"
    /\ edits = 0
    /\ store_faults = 0
    /\ destination = None
    /\ RequestsIdle
    /\ FeedIdle
    /\ workflow_name \in WorkflowNames
    /\ parameters \in ParameterDicts
    /\ document = PyDict(<<>>)
    /\ WorkflowIdle
    /\ QueriesIdle

WorkflowNext ==
    \/ GetTemplateParameters
    \/ BuildWorkflow
    \/ SubmitBuild
    \/ SubmitValidate
    \/ SubmitPrompt
    \/ ClientPersist
    \/ ClientFinish

WorkflowSpec == WorkflowInit /\ [][WorkflowNext]_vars

(***************************************************************************)
(* Properties                                                              *)
(***************************************************************************)

\* The request names the followed row the way its handler's services look
\* rows up: by comfy_job_id (both kinds) or by id (image complete_job).
Addressed ==
    \/ event.job_id = ComfyJobId
    \/ kind = "image" /\ event.job_id = JobUuid

\* Request p returns in this step (the 400 answer to a malformed image
\* request, which never reaches the job, is not counted).
Returns(p) == pc[p] \notin {"idle", "done"} /\ pc'[p] = "done"

IsDurable(url) == url[1] = "supabase"

\* C1: when a successful completion has run the pipeline and returned 200,
\* and nothing else wrote the row, a second complete with the same arguments
\* that reads the job afterwards returns 200 at once, runs no pipeline and
\* leaves the stored record as the first call left it.
C1_SecondCompleteIsNoOp ==
    [][(/\ pc[1] = "done" /\ response[1] = "200" /\ ranPipeline[1]
        /\ edits = 0
        /\ pc[2] = "get_job" /\ pc'[2] # "get_job")
       => (/\ pc'[2] = "done" /\ response'[2] = "200"
           /\ ~ranPipeline'[2]
           /\ rows' = rows)]_vars

\* C2: of two complete_video_job calls for the same job that both found it,
\* with nothing else writing the row, at most one runs the materialisation
\* pipeline, however their steps interleave.
C2_AtMostOnePipelineRun ==
    (/\ kind = "video" /\ edits = 0
     /\ \A p \in Callers : existing_status[p] # "none")
        => Cardinality({p \in Callers : ranPipeline[p]}) <= 1

\* C3: a complete_video_job call that reads the stored status 'failed'
\* returns 200 in that step, without entering the pipeline or going on to
\* the row update.
C3_FailedJobShortCircuits ==
    \A p \in Callers :
        (kind = "video" /\ existing_status[p] = "failed")
            => pc[p] = "done" /\ response[p] = "200" /\ ~ranPipeline[p]

\* C4: the status of a video_jobs row only moves forward along
\* pending -> processing -> {completed | failed}.
C4_StatusMonotonic ==
    [][kind = "video" => \A r \in rows : \A r2 \in rows' :
          /\ r.status \in {"completed", "failed"} => r2.status = r.status
          /\ r.status = "processing" => r2.status # "pending"]_vars

\* C5: a video_jobs row has output references only while it is completed;
\* they are written in the update that sets the status to completed and are
\* not changed afterwards.
C5_OutputsOnlyWithCompleted ==
    [][kind = "video" => \A r \in rows : \A r2 \in rows' :
          /\ r2.outputs # <<>> => r2.status = "completed"
          /\ r.outputs # <<>> => r2.outputs = r.outputs]_vars

\* C6: a complete(success) call with n output references on a job that is
\* not yet completed returns 200 and leaves the row completed with n
\* outputs, the i-th being the stored object's URL when its upload
\* succeeded and the i-th renderer reference otherwise.
C6_PerRefFallback ==
    [][\A p \in Callers :
          (/\ Returns(p) /\ Addressed
           /\ event.status = "completed" /\ event.refs > 0
           /\ \E r \in rows : r.status # "completed")
          => /\ response'[p] = "200"
             /\ \A r \in rows' :
                   /\ r.status = "completed"
                   /\ Len(r.outputs) = event.refs
                   /\ \A i \in 1..event.refs :
                         r.outputs[i] \in {SupabaseUrl(p, i), ComfyUrl(i)}]_vars

\* C7: a video_jobs row carries an error message only if it is failed, or
\* completed with no output stored durably.
C7_ErrorMessageOnlyOnFailure ==
    \A r \in rows :
        (kind = "video" /\ r.error_message # None)
            => \/ r.status = "failed"
               \/ /\ r.status = "completed"
                  /\ r.outputs # <<>>
                  /\ \A i \in 1..Len(r.outputs) : ~IsDurable(r.outputs[i])

\* C8: a complete_video_job call that ran the pipeline on an existing job
\* returns 200 with the row completed and its outputs equal to the list the
\* upload loop produced, whatever the thumbnail block did; the thumbnail
\* only decides whether thumbnail_url is written.
C8_ThumbnailNeverBlocks ==
    [][\A p \in Callers :
          (/\ kind = "video" /\ Returns(p) /\ ranPipeline[p]
           /\ event.job_id = ComfyJobId /\ rows # {})
          => /\ response'[p] = "200"
             /\ Len(supabase_urls[p]) = event.refs
             /\ \A r \in rows' :
                   /\ r.status = "completed"
                   /\ r.outputs = supabase_urls[p]
                   /\ payload[p].thumbnail_url # None
                        => r.thumbnail_url = payload[p].thumbnail_url
                   /\ payload[p].thumbnail_url = None
                        => \E r0 \in rows :
                              r.thumbnail_url = r0.thumbnail_url]_vars

\* A video request has returned 200 after running the pipeline and the row
\* is completed with outputs but without a thumbnail: the thumbnail block
\* of that request failed or raised.
C8_Witness ==
    /\ kind = "video"
    /\ \E p \in Callers :
          /\ pc[p] = "done" /\ ranPipeline[p] /\ response[p] = "200"
          /\ \E r \in rows :
                /\ r.status = "completed"
                /\ r.outputs # <<>>
                /\ r.thumbnail_url = None

FailureEvent ==
    /\ event.status = "failed"
    /\ event.refs = 0
    /\ event.error_message # None

FeedRead(k) == feedResult' # feedResult /\ feedResult'.key = k

\* C11: an entry stored under key k at time t0 is not returned at any time
\* later than t0 + TTL; a feed read for k then misses the cache and answers
\* from the table (or reports the query's error).
C11_ExpiredEntryNotReturned ==
    [][\A status \in FeedFilters :
          LET k == FeedKey(status, 0)
              t0 == CacheEntry(k).expires - CACHE_TTL_SECONDS
          IN  (/\ FeedRead(k)
               /\ Cached(k)
               /\ now > t0 + CACHE_TTL_SECONDS)
              => /\ ~feedResult'.hit
                 /\ feedResult'.error
                       \/ feedResult'.data = FeedQuery(status, 0)]_vars

\* A feed read found an expired entry under its key, answered from the
\* table and stored the answer in the entry's place.
C11_Witness ==
    /\ now > CACHE_TTL_SECONDS
    /\ feedResult.key \in FeedKeys
    /\ ~feedResult.hit /\ ~feedResult.error /\ feedResult.replaced
    /\ CacheEntry(feedResult.key).expires = now + CACHE_TTL_SECONDS
    /\ feedResult.data[1] # {}

\* C12: a get_feed_jobs call never returns a cached payload that differs
\* from the table's present answer to the query: every job write that
\* changed the answer has removed the entry.
C12_WriteInvalidatesFeed ==
    [][\A status \in FeedFilters :
          (FeedRead(FeedKey(status, 0)) /\ feedResult'.hit)
              => feedResult'.data = FeedQuery(status, 0)]_vars

\* The keys of the request's parameters, as get_template_parameters names
\* placeholders.
ParameterNames == {<<parameters[n][1]>> : n \in 1..Len(parameters)}

\* C13: when the parameters cover exactly the placeholder set P of the
\* template, build_workflow succeeds and its document holds no '{{...}}'
\* token; when a key of P is missing it fails with the
\* unsubstituted-placeholders error, which names that key's token.
C13_BuildCoversPlaceholders ==
    LET P == get_template_parameters(workflow_name)
        missing == P.parameters \ ParameterNames
    IN  (built # NoCall /\ P.success)
        => /\ ParameterNames = P.parameters
                => /\ built.success
                   /\ FindPlaceholders(json_dumps(built.workflow), 1) = <<>>
           /\ missing # {}
                => /\ ~built.success
                   /\ built.error = "unsubstituted"
                   /\ \A k \in missing :
                         \E n \in 1..Len(built.remaining) :
                            built.remaining[n] = Placeholder(k[1])

Item(dict, key) ==
    dict.val[CHOOSE n \in 1..Len(dict.val) : dict.val[n][1] = key][2]

NodeInputs(workflow) == Item(Item(workflow, <<"1">>), <<"inputs">>)

HasSpecialCharacter(chars) ==
    \E i \in 1..Len(chars) : chars[i] \in {Q, BS, NL, CR, TAB}

\* C14: with parameters covering the template's placeholders, every input
\* that is a placeholder comes out with the type of its parameter: an int
\* as that number, a bool as that boolean, and a str holding quote,
\* backslash, newline, carriage return or tab as a str, in a document that
\* parsed.
C14_BuildPreservesTypes ==
    (/\ built # NoCall
     /\ workflow_name \in DOMAIN Templates
     /\ ParameterNames = get_template_parameters(workflow_name).parameters)
    => LET inputs == NodeInputs(Templates[workflow_name]).val
       IN  \A n \in 1..Len(parameters), m \in 1..Len(inputs) :
              LET value == parameters[n][2]
              IN  (/\ inputs[m][2] = PyStr(Placeholder(parameters[n][1]))
                   /\ value.type = "str" => HasSpecialCharacter(value.val))
                  => /\ built.success
                     /\ LET out == Item(NodeInputs(built.workflow),
                                        inputs[m][1])
                        IN  /\ out.type = value.type
                            /\ value.type \in {"int", "bool"}
                                  => out.val = value.val

\* The documents the claim calls valid.
WellFormed(doc) ==
    /\ doc.type = "dict"
    /\ doc.val # <<>>
    /\ \A n \in 1..Len(doc.val) :
          LET node == doc.val[n][2]
          IN  /\ node.type = "dict"
              /\ HasKey(node, <<"class_type">>)
              /\ HasKey(node, <<"inputs">>)
              /\ Item(node, <<"inputs">>).type = "dict"

\* C15: validate_workflow answers valid exactly for a non-empty dict whose
\* nodes are all dicts with a class_type key and an inputs key holding a
\* dict, and gives an error message with every invalid answer.
C15_ValidateExactlyWellFormed ==
    validation # NoCall
        => /\ validation.is_valid <=> WellFormed(document)
           /\ ~validation.is_valid => validation.error # None

\* The request's template builds and the built document validates.
BuildsAndValidates ==
    LET result == build_workflow(workflow_name, parameters)
    IN  result.success /\ validate_workflow(result.workflow).is_valid

\* C16: submit_prompt is invoked only from the submit step of a request
\* whose build_workflow and validate_workflow both succeeded; a request
\* whose template is missing, keeps a placeholder or fails validation
\* returns success=false with an error and no submit_prompt call.
C16_NoRendererCallOnTemplateError ==
    [][/\ prompt_calls' # prompt_calls
            => sw_pc = "submit" /\ BuildsAndValidates
       /\ (sw_pc # "done" /\ sw_pc' = "done" /\ ~BuildsAndValidates)
            => /\ ~sw_response'.success
               /\ sw_response'.error # None
               /\ prompt_calls' = 0]_vars

\* A request whose built document failed validation has returned
\* success=false and submit_prompt was never called.
C16_Witness ==
    /\ sw_pc = "done"
    /\ build_workflow(workflow_name, parameters).success
    /\ sw_response.error = "validation_failed"
    /\ prompt_calls = 0

C17_CreatePersistsPendingRow ==
    [][createResult' # createResult
          => /\ createResult' = "ok"
             /\ rows' # rows
             /\ rows' = rows \cup {PendingRow}]_vars

\* Request p takes a step.
StepOf(p) ==
    \/ pc'[p] # pc[p]
    \/ supabase_urls'[p] # supabase_urls[p]
    \/ payload'[p] # payload[p]

\* C19: a complete call writes the row only in its last step: while its
\* upload or thumbnail steps are pending it leaves the table alone, and
\* when a call that ran the pipeline makes the update, every output
\* reference of the payload has been resolved to a stored object's URL or
\* to its renderer URL.
C19_RowUpdatedAfterDurability ==
    [][\A p \in Callers :
          /\ (StepOf(p) /\ pc[p] \in {"get_job", "upload", "thumbnail"})
                => rows' = rows
          /\ (StepOf(p) /\ pc[p] = "complete_job" /\ ranPipeline[p])
                => /\ Len(supabase_urls[p]) = event.refs
                   /\ payload[p].output_urls = supabase_urls[p]
                   /\ \A i \in 1..event.refs :
                         supabase_urls[p][i]
                             \in {SupabaseUrl(p, i), ComfyUrl(i)}]_vars

\* A call with two or more output references has completed the row: all
\* of them are in the stored list.
C19_Witness ==
    /\ event.refs >= 2
    /\ \E p \in Callers :
          /\ pc[p] = "done" /\ ranPipeline[p] /\ response[p] = "200"
          /\ \E r \in rows :
                r.status = "completed" /\ Len(r.outputs) = event.refs

\* The URLs of a resolved list that are stored objects.
DurableIndexes(urls) == {i \in 1..Len(urls) : IsDurable(urls[i])}

\* C20: after the thumbnail step of complete_video_job, the thumbnail
\* source is the first durably stored output, and no thumbnail is derived
\* when no output was stored durably.
C20_ThumbnailFromFirstDurable ==
    \A p \in Callers :
        (kind = "video" /\ pc[p] = "complete_job" /\ ranPipeline[p])
        => LET urls == supabase_urls[p]
               durable == DurableIndexes(urls)
           IN  IF durable # {}
                  THEN \E i \in durable :
                          /\ \A j \in durable : i <= j
                          /\ thumb_source[p] = urls[i]
                  ELSE /\ thumb_source[p] = NoUrl
                       /\ payload[p].thumbnail_url = None

\* C20 as amended: the thumbnail source is the first element of the
\* resolved list, a stored object's URL if the first upload succeeded and
\* the first renderer URL if it fell back; a thumbnail is attempted
\* whenever the pipeline ran.
C20_ThumbnailFromFirstOutput ==
    \A p \in Callers :
        (kind = "video" /\ pc[p] = "complete_job" /\ ranPipeline[p])
        => /\ thumb_source[p] \in {SupabaseUrl(p, 1), ComfyUrl(1)}
           /\ thumb_source[p] = supabase_urls[p][1]
           /\ payload[p].thumbnail_url \in {None, ThumbUrl(payload[p].job_id)}

\* The first output fell back to its renderer URL, a later one was stored
\* durably, and the thumbnail was derived from the renderer URL.
C20_Witness ==
    /\ kind = "video"
    /\ \E p \in Callers :
          /\ pc[p] = "complete_job" /\ ranPipeline[p]
          /\ ~IsDurable(supabase_urls[p][1])
          /\ DurableIndexes(supabase_urls[p]) # {}
          /\ thumb_source[p] = ComfyUrl(1)
          /\ payload[p].thumbnail_url # None

\* C21: a complete call that found the job and ran the pipeline with n
\* outputs for a job created with a project_id enters the Google Drive
\* block and uploads n files, named '<job id>' for one output and
\* '<job id>_<index>' for several; for a job created without a project_id
\* the block is skipped.
C21_ArchiveEveryOutput ==
    \A p \in Callers :
        (/\ pc[p] = "complete_job" /\ ranPipeline[p]
         /\ existing_status[p] # "none")
        => IF destination = None
              THEN driveOutcome[p] = "skipped"
              ELSE LET names == DriveFilenames(kind, payload[p].job_id,
                                               supabase_urls[p])
                       n == Len(supabase_urls[p])
                   IN  /\ driveOutcome[p] \in DriveOutcomes
                       /\ project_id[p] = destination
                       /\ Len(names) = n
                       /\ \A i \in 1..n :
                             \E ext \in {".mp4", ".png"} :
                                names[i] =
                                   IF n = 1
                                      THEN payload[p].job_id \o ext
                                      ELSE payload[p].job_id \o "_"
                                              \o Pad3(i) \o ext

\* A complete(success) call stands at its final update with the pipeline
\* run, its row in the table and not yet completed.
AtFinalUpdate(p) ==
    /\ pc[p] = "complete_job" /\ ranPipeline[p]
    /\ payload[p].status = "completed"
    /\ \E r \in rows :
          /\ CompleteMatch(kind, rows, payload[p].job_id, r)
          /\ r.status # "completed"

\* C22: once a complete(success) call has finished its pipeline and stands
\* at the final update of its row, the row eventually becomes 'completed':
\* the store raises at most MaxFaults times, so an update that is tried
\* again gets through.
C22_UpdateRetriedUntilStored ==
    \A p \in Callers :
        AtFinalUpdate(p) ~> \E r \in rows : r.status = "completed"

\* The lookup of request p has been made.
LookedUp(p) == pc[p] \in {"upload", "thumbnail", "complete_job", "done"}

\* C24: a complete call whose lookup found no job runs no upload, thumbnail
\* or archive step, and while the table holds no job it answers with an
\* error.
C24_UnknownJobNoUploads ==
    \A p \in Callers :
        (LookedUp(p) /\ existing_status[p] = "none")
        => /\ ~ranPipeline[p]
           /\ supabase_urls[p] = <<>>
           /\ thumb_source[p] = NoUrl
           /\ driveOutcome[p] \notin DriveOutcomes
           /\ (pc[p] = "done" /\ rows = {})
                 => response[p] \in {"400", "404", "failed"}

\* The lookup of request p raises in this step.
LookupRaises(p) ==
    /\ pc[p] = "get_job" /\ pc'[p] # "get_job"
    /\ store_faults' < store_faults

\* C25: a complete call whose lookup raises while the job it names is
\* already 'completed' returns without entering the upload loop, and the
\* row keeps its outputs and thumbnail.
C25_FailedLookupKeepsCompletedJob ==
    [][\A p \in Callers :
          (/\ LookupRaises(p)
           /\ \E r \in rows : /\ r.comfy_job_id = payload[p].job_id
                               /\ r.status = "completed")
          => /\ ~ranPipeline'[p]
             /\ pc'[p] = "done"
             /\ rows' = rows]_vars

\* C26: a complete_image_job call that names an already 'completed' image
\* job, by its id or by its comfy_job_id, returns from its lookup step: it
\* enters no upload loop and the row stays as it is.
C26_ImageGuardByEitherId ==
    [][\A p \in Callers :
          (/\ kind = "image"
           /\ pc[p] = "get_job" /\ pc'[p] # "get_job"
           /\ \E r \in rows : /\ payload[p].job_id \in {r.id, r.comfy_job_id}
                               /\ r.status = "completed")
          => /\ pc'[p] = "done"
             /\ ~ranPipeline'[p]
             /\ rows' = rows]_vars

FilterOf(text) == IF text = <<>> THEN NoneText ELSE text

\* Two argument lists ask the same feed query.
SameQuery(a, b) ==
    /\ a.table = b.table
    /\ FilterOf(a.user_id) = FilterOf(b.user_id)
    /\ FilterOf(a.workflow) = FilterOf(b.workflow)
    /\ FilterOf(a.status) = FilterOf(b.status)
    /\ a.limit = b.limit /\ a.offset = b.offset

\* C27: two feed queries that get the same cache key are the same query,
\* an absent filter being different from the filter value 'all' and from
\* every value that holds ':'.
C27_CacheKeyInjective ==
    (key_pair # NoKeys /\ key_pair[1] = key_pair[2])
        => SameQuery(key_queries[1], key_queries[2])

\* C28: a get_recent_jobs_feed call with a user_id returns only jobs of
\* video_jobs rows whose user_id is that one.
C28_FeedOnlyOwnJobs ==
    (feed_page.called /\ feed_request.user_id # None)
        => \A i \in 1..Len(feed_page.items) :
              feed_store[feed_page.items[i].created_at]
                  = feed_request.user_id

\* C29: get_recent_jobs_feed returns the items at positions offset ..
\* offset + limit - 1 of all matching video_jobs rows and all legacy rows,
\* merged and sorted by created_at descending.
C29_PageOfGlobalOrder ==
    feed_page.called
        => LET all == SortDesc(VideoMatches(feed_store, feed_request.user_id)
                                  \cup LegacyMatches(feed_store))
               page == Slice(all, feed_request.offset, feed_request.limit)
           IN  feed_page.items =
                   [i \in 1..Len(page) |-> FeedItem(feed_store, page[i])]

\* The parameter value a whole-string placeholder names, if any.
ParameterFor(chars) ==
    {parameters[n][2] : n \in {m \in 1..Len(parameters) :
                                  chars = Placeholder(parameters[m][1])}}

RECURSIVE Substituted(_)
\* The document with every placeholder position holding its parameter's
\* value and every other part as in the template.
Substituted(doc) ==
    IF doc.type = "str" /\ ParameterFor(doc.val) # {}
       THEN CHOOSE v \in ParameterFor(doc.val) : TRUE
    ELSE IF doc.type = "dict"
       THEN PyDict([n \in 1..Len(doc.val) |->
                       <<doc.val[n][1], Substituted(doc.val[n][2])>>])
    ELSE doc

\* C30: when build_workflow accepts string parameters, the returned
\* document is the template with exactly the value v at each placeholder
\* position and nothing else changed, also for values holding text such as
\* ': True,'.
C30_BuildRoundTripsStrings ==
    (/\ built # NoCall
     /\ built.success
     /\ \A n \in 1..Len(parameters) : parameters[n][2].type = "str")
    => built.workflow = Substituted(Templates[workflow_name])

====
